---- MODULE Spec2Model ----
(***************************************************************************)
(* Model of PEF_MEMS.ino: contact-resistance measurement of a MEMS relay.  *)
(* Three contexts run concurrently: the sequencer (loop()), the            *)
(* acquisition task (tacheMesureUltraRapide) and the persistence/display   *)
(* task (tacheAffichageSauvegarde); the BOOT button ISR feeds the          *)
(* sequencer.  A step is one access to unprotected shared state together   *)
(* with the task-local work around it; a critical section is two steps,    *)
(* the take with its body and the give, so that a busy lock is observable. *)
(***************************************************************************)
EXTENDS Integers, Sequences, FiniteSets, TLC

----------------------------------------------------------------------------
(* Sizes.  The source values are in the comments; the model runs them      *)
(* scaled down so that a full buffer, a full sweep and a timeout happen.   *)

\* capacity of the circular buffer (source: 500)
TAILLE_BUFFER == 2

\* last DAC level of the sweep (source: 255)
DAC_MAX == 1

\* tests per cycle (source: 10)
NB_TESTS_TOTAL == 2

\* dwell per DAC level, in sweep polls of 25 ms (source: 500 ms = 20 polls)
DUREE_PALIER_MS == 2

\* global timeout, in sweep polls of 25 ms (source: 300000 ms)
DUREE_MAX_TEST_MS == 4

\* samples drained per batch by the persistence task (source: 50)
TAILLE_LOT == 2

\* records between two periodic flushes (source: 100)
PERIODE_FLUSH == 2

\* acquisitions per TestRun in the quiet runs: fill the buffer and be refused
MAX_MESURES == TAILLE_BUFFER + 2

\* the sequencer treats a stopped acquisition as abnormal after 200 ms of dwell
DELAI_THREAD_ARRETE == DUREE_PALIER_MS - 1

SEUIL_COURANT_MAX_mA == 70
SEUIL_RCONTACT_MIN == 100
SEUIL_RESISTANCE_MAX == 500000000
R1 == 10000000
\* Vexc = 3.313 V in units of 0.25 mV (2 * 0.000125 V per ADC count)
VEXC_LSB == 13252
NB_MESURES_STABILISATION == 5
SEUIL_CV == 40
R_INVALIDE == -999999
NB_REBOURS == 3

\* acquisitions per TestRun in the eventful runs
MESURES_EVENEMENTS == 1

\* ADC codes of the bridge: one that reads as 377 ohms, and the one that
\* cancels the denominator Vexc - 2 Vd (an invalid reading)
CODE_377 == 1 - VEXC_LSB
CODE_INVALIDE == VEXC_LSB

----------------------------------------------------------------------------
(* Resistance estimator *)

resistanceValideSansPlafond(r) ==
    r > 0 /\ r # R_INVALIDE

\* resistanceValide(): finite, positive, below the ceiling, not the sentinel
resistanceValide(r) ==
    r > 0 /\ r < SEUIL_RESISTANCE_MAX /\ r # R_INVALIDE

RECURSIVE Pow10(_)
Pow10(k) ==
    IF k = 0 THEN 1 ELSE 10 * Pow10(k - 1)

\* floor(num * 10^k / den) by long division, for 0 <= num < den
RECURSIVE DivLongue(_, _, _)
DivLongue(num, den, k) ==
    IF k = 0 THEN 0
    ELSE LET d == (num * 10) \div den
             r == (num * 10) % den
         IN  d * Pow10(k - 1) + DivLongue(r, den, k - 1)

Abs(x) ==
    IF x < 0 THEN -x ELSE x

\* floor(R1 * num / den) for num >= 0, den > 0; any value at or above the
\* ceiling is represented by the ceiling itself (it is rejected all the same)
QuotientR1(num, den) ==
    IF num \div den >= SEUIL_RESISTANCE_MAX \div R1 THEN SEUIL_RESISTANCE_MAX
    ELSE (num \div den) * R1 + DivLongue(num % den, den, 7)

\* calculerResistance(): R = R1 * (Vexc + 2 Vd) / (Vexc - 2 Vd), in ohms.
\* Vd = rawDiff * 0.000125 V, so numerator and denominator are whole numbers
\* of 0.25 mV; |denom| < 1e-6 V holds exactly when that whole number is 0.
calculerResistance(rawDiff) ==
    LET num   == VEXC_LSB + rawDiff
        denom == VEXC_LSB - rawDiff
    IN  IF denom = 0 THEN R_INVALIDE
        ELSE LET signe == IF (num < 0) # (denom < 0) THEN -1 ELSE 1
                 resistance == signe * QuotientR1(Abs(num), Abs(denom))
             IN  IF ~resistanceValide(resistance) THEN R_INVALIDE
                 ELSE resistance

----------------------------------------------------------------------------
(* State *)

VARIABLES
    buffer,               \* BufferCirculaire: mesures, tete, queue, count
    stats,                \* StatsTest (Detection State)
    affichage,            \* EtatAffichage (status line, change flag)
    mutexBuffer,          \* holder of each FreeRTOS mutex, or "libre"
    mutexStats,
    mutexAffichage,
    mesureActive,         \* volatile control flags
    dacCourant,
    arretUrgence,
    contactDetecte,
    reinitialiserDemande,
    nbMesuresTotal,
    nbMesuresSauvees,
    dataFile,             \* storage handle: ouvert, records since last flush
    numeroTest,
    boutonAppuye,
    dacSortie,            \* level on the DAC_RELAIS pin
    horloge,              \* micros() - tempsDebut, in acquisition cycles
    seq,                  \* locals of loop()
    mes,                  \* locals of tacheMesureUltraRapide
    aff,                  \* locals of tacheAffichageSauvegarde
    env,                  \* what the sensors and the user can do in this run
    obs                   \* history of the run, read by the properties only

vars ==
    <<buffer, stats, affichage, mutexBuffer, mutexStats, mutexAffichage,
      mesureActive, dacCourant, arretUrgence, contactDetecte,
      reinitialiserDemande, nbMesuresTotal, nbMesuresSauvees, dataFile,
      numeroTest, boutonAppuye, dacSortie, horloge, seq, mes, aff, env, obs>>

mutex ==
    <<mutexBuffer, mutexStats, mutexAffichage>>

drapeaux ==
    <<mesureActive, dacCourant, arretUrgence, contactDetecte, reinitialiserDemande>>

compteurs ==
    <<nbMesuresTotal, nbMesuresSauvees>>

materiel ==
    <<dataFile, numeroTest, boutonAppuye, dacSortie, horloge, env>>

\* MesureBrute, zero-initialised (raw_a2 is carried to the CSV only and is
\* left out of the record)
MesureZero ==
    [temps_us |-> 0, courant_mA |-> 0, raw_diff |-> 0, dac |-> 0]

\* StatsTest after memset(&stats, 0, sizeof(stats))
StatsZero ==
    [r_courante |-> 0, contact_detecte |-> FALSE, temps_premier_contact_us |-> 0,
     r_contact_initiale |-> 0, dac_contact |-> 0]

BufferZero ==
    [mesures |-> [i \in 0..(TAILLE_BUFFER - 1) |-> MesureZero],
     tete |-> 0, queue |-> 0, count |-> 0]

Resultats ==
    {"Contact", "NoContact", "SafetyAbort", "Timeout"}

Min(a, b) ==
    IF a < b THEN a ELSE b

\* a task that has been created and has not yet called vTaskDelete
Vivante(pc) ==
    pc \notin {"absente", "supprimee"}

\* locals of the two tasks when they are not running
MesAbsente ==
    [pc |-> "absente", mesureLocale |-> MesureZero, contactDetecteLocal |-> FALSE]

AffAbsente ==
    [pc |-> "absente", mesuresLocales |-> <<>>]

\* locals of loop() on entry
SeqDebut ==
    [pc |-> "debut", dacValue |-> 0, testEnCours |-> FALSE, tempsPalier |-> 0,
     tempsEcoule |-> 0, contactLocal |-> FALSE, urgenceLocal |-> FALSE,
     rebours |-> 0]

ObsDebut ==
    [rapports |-> <<>>, causeFin |-> "aucune", surintensiteLue |-> FALSE,
     pousses |-> <<>>, depiles |-> <<>>, refus |-> 0,
     demarre |-> FALSE, niveauPause |-> -1]

\* The runs explored: an eventful one (contact, overcurrent, pauses) with few
\* samples, and a quiet one with enough samples to fill the buffer.
Environnements ==
    { [codes |-> {CODE_377, CODE_INVALIDE}, courants |-> {70, 71},
       bouton |-> TRUE, mesures |-> MESURES_EVENEMENTS],
      [codes |-> {CODE_INVALIDE}, courants |-> {70},
       bouton |-> FALSE, mesures |-> MAX_MESURES] }

InitProgramme ==
    /\ buffer = BufferZero
    /\ stats = StatsZero
    /\ affichage = [change |-> FALSE]
    /\ mutexBuffer = "libre"
    /\ mutexStats = "libre"
    /\ mutexAffichage = "libre"
    /\ mesureActive = FALSE
    /\ dacCourant = 0
    /\ arretUrgence = FALSE
    /\ contactDetecte = FALSE
    /\ reinitialiserDemande = FALSE
    /\ nbMesuresTotal = 0
    /\ nbMesuresSauvees = 0
    /\ dataFile = [ouvert |-> FALSE, nonFlushes |-> 0]
    /\ numeroTest = 1
    /\ boutonAppuye = FALSE
    /\ dacSortie = 0
    /\ horloge = 0
    /\ seq = SeqDebut
    /\ mes = MesAbsente
    /\ aff = AffAbsente
    /\ obs = ObsDebut

Init ==
    /\ InitProgramme
    /\ env \in Environnements

----------------------------------------------------------------------------
(* Circular buffer *)

PousserSansTestPlein(buf, m) ==
    [buf EXCEPT !.mesures[buf.tete] = m,
                !.tete = (buf.tete + 1) % TAILLE_BUFFER,
                !.count = buf.count + 1]

PousserEcrase(buf, m) ==
    IF buf.count < TAILLE_BUFFER
    THEN PousserSansTestPlein(buf, m)
    ELSE [buf EXCEPT !.mesures[buf.tete] = m]

\* lines 423-426: slot write, head advance and count increment, unless full
Pousser(buf, m) ==
    IF buf.count < TAILLE_BUFFER
    THEN [buf EXCEPT !.mesures[buf.tete] = m,
                     !.tete = (buf.tete + 1) % TAILLE_BUFFER,
                     !.count = buf.count + 1]
    ELSE buf

LireDernierPousse(buf) ==
    buf.mesures[IF buf.tete = 0 THEN TAILLE_BUFFER - 1 ELSE buf.tete - 1]

\* line 476: the sample the consumer copies out
LireQueue(buf) ==
    buf.mesures[buf.queue]

DepilerSansAvancer(buf) ==
    [buf EXCEPT !.count = buf.count - 1]

\* lines 477-478: the tail advance and the count decrement
Depiler(buf) ==
    [buf EXCEPT !.queue = (buf.queue + 1) % TAILLE_BUFFER,
                !.count = buf.count - 1]

\* lines 475-480: the drain loop; result: the batch and the buffer left
RECURSIVE Extraire(_, _)
Extraire(buf, lot) ==
    IF Len(lot) < TAILLE_LOT /\ buf.count > 0
    THEN Extraire(Depiler(buf), Append(lot, LireQueue(buf)))
    ELSE [buffer |-> buf, lot |-> lot]

----------------------------------------------------------------------------
(* Stabilisation statistics, lines 354-398 *)

RECURSIVE Somme(_)
Somme(rs) ==
    IF rs = <<>> THEN 0 ELSE Head(rs) + Somme(Tail(rs))

\* sum of (n*r - S)^2, that is n^2 times the sum of squared deviations
RECURSIVE EcartsCarres(_, _, _)
EcartsCarres(rs, n, S) ==
    IF rs = <<>> THEN 0
    ELSE (n * Head(rs) - S) * (n * Head(rs) - S) + EcartsCarres(Tail(rs), n, S)

\* lines 375-379
Moyenne(rs) ==
    Somme(rs) \div Len(rs)

CoefficientAccepteOuEgal(rs) ==
    LET n == Len(rs)
        S == Somme(rs)
    IN  (100 \div 20) * (100 \div 20) * EcartsCarres(rs, n, S)
            <= (SEUIL_CV \div 20) * (SEUIL_CV \div 20) * n * S * S

\* lines 382-398: coefficient = sqrt(variance / n) / moyenne * 100 < 40, squared
\* and cleared of denominators: 100^2 * E < 40^2 * n * S^2 (both sides
\* divided by 20^2)
CoefficientAccepte(rs) ==
    LET n == Len(rs)
        S == Somme(rs)
    IN  (100 \div 20) * (100 \div 20) * EcartsCarres(rs, n, S)
            < (SEUIL_CV \div 20) * (SEUIL_CV \div 20) * n * S * S

\* lines 354-371: the readings of one stabilisation, every one converted
Resistances(raws) ==
    [i \in 1..Len(raws) |-> calculerResistance(raws[i])]

\* lines 363-369: stabilisationOK after the loop
ToutesValides(rs) ==
    \A i \in 1..Len(rs) : resistanceValide(rs[i])

\* lines 374 and 398: stabilisation confirms the contact
StabilisationAccepte(rs) ==
    ToutesValides(rs) /\ CoefficientAccepte(rs)

\* line 338: the condition that starts a stabilisation
ContactPotentiel(r, st) ==
    resistanceValide(r) /\ r >= SEUIL_RCONTACT_MIN /\ ~st.contact_detecte

\* lines 399-402
ConfirmerContact(st, m, moyenne) ==
    [st EXCEPT !.contact_detecte = TRUE,
               !.temps_premier_contact_us = m.temps_us,
               !.r_contact_initiale = moyenne,
               !.dac_contact = m.dac]

----------------------------------------------------------------------------
(* reinitialiserVariablesTest(), lines 268-292.  mesureActive is written by *)
(* the caller's action, which goes on to set it.                            *)

reinitialiserVariablesTest ==
    /\ stats' = IF mutexStats = "libre" THEN StatsZero ELSE stats
    /\ buffer' = IF mutexBuffer = "libre"
                 THEN [buffer EXCEPT !.tete = 0, !.queue = 0, !.count = 0]
                 ELSE buffer
    /\ arretUrgence' = FALSE
    /\ contactDetecte' = FALSE
    /\ reinitialiserDemande' = FALSE
    /\ dacCourant' = 0
    /\ nbMesuresTotal' = 0
    /\ nbMesuresSauvees' = 0

\* the push/pop history restarts with the buffer indices
ObsApresReinit(o) ==
    IF mutexBuffer = "libre"
    THEN [o EXCEPT !.pousses = <<>>, !.depiles = <<>>, !.refus = 0]
    ELSE o

----------------------------------------------------------------------------
(* Acquisition task, tacheMesureUltraRapide(), lines 303-441 *)

\* line 326
Surintensite(m) ==
    m.courant_mA > SEUIL_COURANT_MAX_mA

\* lines 311-326: loop test, one synchronous read of the sensors and the
\* comparison of the current with the ceiling
Mes_Boucle ==
    /\ mes.pc = "boucle"
    /\ IF mesureActive /\ ~reinitialiserDemande
       THEN /\ horloge < env.mesures
            /\ horloge' = horloge + 1
            /\ \E raw \in env.codes, i \in env.courants :
                  LET m == [temps_us |-> horloge + 1, courant_mA |-> i,
                            raw_diff |-> raw, dac |-> dacCourant]
                  IN  mes' = [mes EXCEPT !.mesureLocale = m,
                                         !.pc = IF Surintensite(m) THEN "securite"
                                                ELSE "prendre_stats"]
       ELSE /\ mes' = [MesAbsente EXCEPT !.pc = "supprimee"]
            /\ UNCHANGED horloge
    /\ UNCHANGED <<buffer, stats, affichage, mutex, drapeaux, compteurs,
                   dataFile, numeroTest, boutonAppuye, dacSortie, env, seq,
                   aff, obs>>

Mes_SecuritePousse ==
    /\ mes.pc = "securite"
    /\ arretUrgence' = TRUE
    /\ mes' = [mes EXCEPT !.pc = "prendre_buffer"]
    /\ obs' = [obs EXCEPT !.surintensiteLue = TRUE]
    /\ UNCHANGED <<buffer, stats, affichage, mutex, mesureActive, dacCourant,
                   contactDetecte, reinitialiserDemande, compteurs, materiel,
                   seq, aff>>

\* line 327: overcurrent raises the abort flag
Mes_Securite ==
    /\ mes.pc = "securite"
    /\ arretUrgence' = TRUE
    /\ mes' = [mes EXCEPT !.pc = "securite_arret"]
    /\ obs' = [obs EXCEPT !.surintensiteLue = TRUE]
    /\ UNCHANGED <<buffer, stats, affichage, mutex, mesureActive, dacCourant,
                   contactDetecte, reinitialiserDemande, compteurs, materiel,
                   seq, aff>>

Mes_SecuriteSansArret ==
    /\ mes.pc = "securite_arret"
    /\ mesureActive' = FALSE
    /\ mes' = [mes EXCEPT !.pc = "prendre_stats"]
    /\ UNCHANGED <<buffer, stats, affichage, mutex, dacCourant, arretUrgence,
                   contactDetecte, reinitialiserDemande, compteurs, materiel,
                   seq, aff, obs>>

\* lines 328-330 and 440: mesureActive = false; break; vTaskDelete
Mes_SecuriteArret ==
    /\ mes.pc = "securite_arret"
    /\ mesureActive' = FALSE
    /\ mes' = [MesAbsente EXCEPT !.pc = "supprimee"]
    /\ UNCHANGED <<buffer, stats, affichage, mutex, dacCourant, arretUrgence,
                   contactDetecte, reinitialiserDemande, compteurs, materiel,
                   seq, aff, obs>>

\* lines 334-351: xSemaphoreTake(mutexStats, 0), skipped when the lock is
\* busy; under the lock, r_courante and the test for a potential contact
Mes_PrendreStats ==
    /\ mes.pc = "prendre_stats"
    /\ IF ~mes.contactDetecteLocal /\ mutexStats = "libre"
       THEN LET r_contact == calculerResistance(mes.mesureLocale.raw_diff)
            IN  /\ mutexStats' = "mesure"
                /\ stats' = [stats EXCEPT !.r_courante = r_contact]
                /\ mes' = [mes EXCEPT !.pc = IF ContactPotentiel(r_contact, stats)
                                             THEN "stabiliser"
                                             ELSE "rendre_stats"]
       ELSE /\ mes' = [mes EXCEPT !.pc = "prendre_buffer"]
            /\ UNCHANGED <<mutexStats, stats>>
    /\ UNCHANGED <<buffer, affichage, mutexBuffer, mutexAffichage, drapeaux,
                   compteurs, materiel, seq, aff, obs>>

\* lines 354-415: the stabilisation readings (task-local) and the verdict;
\* mutexStats stays held throughout
Mes_Stabiliser ==
    /\ mes.pc = "stabiliser"
    /\ mutexStats = "mesure"
    /\ \E raws \in [1..NB_MESURES_STABILISATION -> env.codes] :
          LET resistances == Resistances(raws)
          IN  IF StabilisationAccepte(resistances)
              THEN /\ stats' = ConfirmerContact(stats, mes.mesureLocale,
                                                Moyenne(resistances))
                   /\ contactDetecte' = TRUE
                   /\ mes' = [mes EXCEPT !.pc = "rendre_stats",
                                         !.contactDetecteLocal = TRUE]
              ELSE /\ mes' = [mes EXCEPT !.pc = "rendre_stats"]
                   /\ UNCHANGED <<stats, contactDetecte>>
    /\ UNCHANGED <<buffer, affichage, mutex, mesureActive, dacCourant,
                   arretUrgence, reinitialiserDemande, compteurs, materiel,
                   seq, aff, obs>>

Mes_RendreStatsSansRendre ==
    /\ mes.pc = "rendre_stats"
    /\ mes' = [mes EXCEPT !.pc = "prendre_buffer"]
    /\ UNCHANGED <<buffer, stats, affichage, mutex, drapeaux, compteurs,
                   materiel, seq, aff, obs>>

\* line 418: xSemaphoreGive(mutexStats)
Mes_RendreStats ==
    /\ mes.pc = "rendre_stats"
    /\ mutexStats' = "libre"
    /\ mes' = [mes EXCEPT !.pc = "prendre_buffer"]
    /\ UNCHANGED <<buffer, stats, affichage, mutexBuffer, mutexAffichage,
                   drapeaux, compteurs, materiel, seq, aff, obs>>

TotalToujours(buf, total) ==
    total + 1

\* line 427: the counter moves with the accepted push only
TotalApresPousser(buf, total) ==
    IF buf.count < TAILLE_BUFFER THEN total + 1 ELSE total

ApresCycleSansSortie(m) ==
    [MesAbsente EXCEPT !.pc = "boucle"]

\* lines 433-436: leave the loop once the contact is confirmed
ApresCycle(m) ==
    IF m.contactDetecteLocal THEN [MesAbsente EXCEPT !.pc = "supprimee"]
    ELSE [MesAbsente EXCEPT !.pc = "boucle"]

Mes_PrendreBufferBloquant ==
    /\ mes.pc = "prendre_buffer"
    /\ mutexBuffer = "libre"
    /\ mutexBuffer' = "mesure"
    /\ buffer' = Pousser(buffer, mes.mesureLocale)
    /\ nbMesuresTotal' = TotalApresPousser(buffer, nbMesuresTotal)
    /\ obs' = IF buffer'.count # buffer.count
              THEN [obs EXCEPT !.pousses = Append(@, mes.mesureLocale)]
              ELSE [obs EXCEPT !.refus = @ + 1]
    /\ mes' = [mes EXCEPT !.pc = "rendre_buffer"]
    /\ UNCHANGED <<stats, affichage, mutexStats, mutexAffichage, drapeaux,
                   nbMesuresSauvees, materiel, seq, aff>>

\* lines 422-428: xSemaphoreTake(mutexBuffer, 0) and the push; when the lock
\* is busy the sample is skipped and the cycle ends (lines 433-436)
Mes_PrendreBuffer ==
    /\ mes.pc = "prendre_buffer"
    /\ IF mutexBuffer = "libre"
       THEN /\ mutexBuffer' = "mesure"
            /\ buffer' = Pousser(buffer, mes.mesureLocale)
            /\ nbMesuresTotal' = TotalApresPousser(buffer, nbMesuresTotal)
            /\ obs' = IF buffer'.count # buffer.count
                      THEN [obs EXCEPT !.pousses = Append(@, mes.mesureLocale)]
                      ELSE [obs EXCEPT !.refus = @ + 1]
            /\ mes' = [mes EXCEPT !.pc = "rendre_buffer"]
       ELSE /\ mes' = ApresCycle(mes)
            /\ UNCHANGED <<mutexBuffer, buffer, nbMesuresTotal, obs>>
    /\ UNCHANGED <<stats, affichage, mutexStats, mutexAffichage, drapeaux,
                   nbMesuresSauvees, materiel, seq, aff>>

\* lines 429-436: xSemaphoreGive(mutexBuffer), then the exit test
Mes_RendreBuffer ==
    /\ mes.pc = "rendre_buffer"
    /\ mutexBuffer' = "libre"
    /\ mes' = ApresCycle(mes)
    /\ UNCHANGED <<buffer, stats, affichage, mutexStats, mutexAffichage,
                   drapeaux, compteurs, materiel, seq, aff, obs>>

----------------------------------------------------------------------------
(* Persistence and display task, tacheAffichageSauvegarde(), lines 453-653 *)

\* line 466: while ((mesureActive && !reinitialiserDemande) || buffer.count > 0)
AffContinue ==
    (mesureActive /\ ~reinitialiserDemande) \/ buffer.count > 0

\* line 540: the 200 ms display period has elapsed, or not yet (then line 648)
ApresSauvegarde(a, affichageEchu) ==
    [a EXCEPT !.pc = IF affichageEchu THEN "copier_stats" ELSE "boucle",
              !.mesuresLocales = <<>>]

\* lines 466-470 and 540: loop test; the 10 ms save period and the 200 ms
\* display period have elapsed, or not yet
Aff_Boucle ==
    /\ aff.pc = "boucle"
    /\ IF AffContinue
       THEN \E sauvegardeEchue, affichageEchu \in BOOLEAN :
               aff' = IF sauvegardeEchue
                      THEN [aff EXCEPT !.pc = "prendre_buffer"]
                      ELSE ApresSauvegarde(aff, affichageEchu)
       ELSE aff' = [AffAbsente EXCEPT !.pc = "supprimee"]
    /\ UNCHANGED <<buffer, stats, affichage, mutex, drapeaux, compteurs,
                   materiel, seq, mes, obs>>

\* lines 474-480: xSemaphoreTake(mutexBuffer, 5 ms) and the drain loop; the
\* wait ends with the lock or, while another context holds it, with a timeout
Aff_PrendreBuffer ==
    /\ aff.pc = "prendre_buffer"
    /\ IF mutexBuffer = "libre"
       THEN LET e == Extraire(buffer, <<>>)
            IN  /\ mutexBuffer' = "affichage"
                /\ buffer' = e.buffer
                /\ aff' = [aff EXCEPT !.pc = "rendre_buffer",
                                      !.mesuresLocales = e.lot]
                /\ obs' = [obs EXCEPT !.depiles = @ \o e.lot]
       ELSE /\ \E affichageEchu \in BOOLEAN :
                  aff' = ApresSauvegarde(aff, affichageEchu)
            /\ UNCHANGED <<mutexBuffer, buffer, obs>>
    /\ UNCHANGED <<stats, affichage, mutexStats, mutexAffichage, drapeaux,
                   compteurs, materiel, seq, mes>>

\* line 531: flush when the saved count is a multiple of the period
FlushDu(sauvees) ==
    sauvees % PERIODE_FLUSH = 0

\* lines 485-534: append the batch, count it, flush on the period
Ecrire(fichier, n, sauvees) ==
    IF n > 0 /\ fichier.ouvert
    THEN [fichier EXCEPT !.nonFlushes = IF FlushDu(sauvees + n) THEN 0 ELSE @ + n]
    ELSE fichier

\* lines 481-540: xSemaphoreGive(mutexBuffer), then the write to the card
Aff_RendreBuffer ==
    /\ aff.pc = "rendre_buffer"
    /\ mutexBuffer' = "libre"
    /\ LET n == Len(aff.mesuresLocales)
       IN  /\ dataFile' = Ecrire(dataFile, n, nbMesuresSauvees)
           /\ nbMesuresSauvees' = IF n > 0 /\ dataFile.ouvert
                                  THEN nbMesuresSauvees + n
                                  ELSE nbMesuresSauvees
    /\ \E affichageEchu \in BOOLEAN :
          aff' = ApresSauvegarde(aff, affichageEchu)
    /\ UNCHANGED <<buffer, stats, affichage, mutexStats, mutexAffichage,
                   drapeaux, nbMesuresTotal, numeroTest, boutonAppuye,
                   dacSortie, horloge, env, seq, mes, obs>>

\* lines 546-548: snapshot of the Detection State under mutexStats (2 ms);
\* the copy feeds the text of the status view only
Aff_CopierStats ==
    /\ aff.pc = "copier_stats"
    /\ IF mutexStats = "libre"
       THEN /\ mutexStats' = "affichage"
            /\ aff' = [aff EXCEPT !.pc = "rendre_stats"]
       ELSE /\ aff' = [aff EXCEPT !.pc = "lire_derniere"]
            /\ UNCHANGED mutexStats
    /\ UNCHANGED <<buffer, stats, affichage, mutexBuffer, mutexAffichage,
                   drapeaux, compteurs, materiel, seq, mes, obs>>

\* line 549
Aff_RendreStats ==
    /\ aff.pc = "rendre_stats"
    /\ mutexStats' = "libre"
    /\ aff' = [aff EXCEPT !.pc = "lire_derniere"]
    /\ UNCHANGED <<buffer, stats, affichage, mutexBuffer, mutexAffichage,
                   drapeaux, compteurs, materiel, seq, mes, obs>>

\* lines 552-557: last written sample under mutexBuffer (2 ms)
Aff_LireDerniere ==
    /\ aff.pc = "lire_derniere"
    /\ IF mutexBuffer = "libre"
       THEN /\ mutexBuffer' = "affichage"
            /\ aff' = [aff EXCEPT !.pc = "rendre_derniere"]
       ELSE /\ aff' = [aff EXCEPT !.pc = "preparer"]
            /\ UNCHANGED mutexBuffer
    /\ UNCHANGED <<buffer, stats, affichage, mutexStats, mutexAffichage,
                   drapeaux, compteurs, materiel, seq, mes, obs>>

\* line 558
Aff_RendreDerniere ==
    /\ aff.pc = "rendre_derniere"
    /\ mutexBuffer' = "libre"
    /\ aff' = [aff EXCEPT !.pc = "preparer"]
    /\ UNCHANGED <<buffer, stats, affichage, mutexStats, mutexAffichage,
                   drapeaux, compteurs, materiel, seq, mes, obs>>

\* lines 562-612: the four lines of text (elapsed time, resistance, level,
\* status) differ from the ones shown, or not; the change flag is set under
\* mutexAffichage (5 ms)
Aff_Preparer ==
    /\ aff.pc = "preparer"
    /\ IF mutexAffichage = "libre"
       THEN /\ mutexAffichage' = "affichage"
            /\ \E differe \in BOOLEAN :
                  affichage' = IF differe THEN [affichage EXCEPT !.change = TRUE]
                               ELSE affichage
       ELSE UNCHANGED <<mutexAffichage, affichage>>
    /\ aff' = [aff EXCEPT !.pc = "rafraichir"]
    /\ UNCHANGED <<buffer, stats, mutexBuffer, mutexStats, drapeaux, compteurs,
                   materiel, seq, mes, obs>>

\* lines 613-648: give, take again (5 ms), render when the text changed,
\* give, vTaskDelay(5 ms)
Aff_Rafraichir ==
    /\ aff.pc = "rafraichir"
    /\ IF mutexAffichage \in {"libre", "affichage"}
       THEN /\ mutexAffichage' = "libre"
            /\ affichage' = [affichage EXCEPT !.change = FALSE]
       ELSE UNCHANGED <<mutexAffichage, affichage>>
    /\ aff' = [aff EXCEPT !.pc = "boucle"]
    /\ UNCHANGED <<buffer, stats, mutexBuffer, mutexStats, drapeaux, compteurs,
                   materiel, seq, mes, obs>>

----------------------------------------------------------------------------
(* Thread management, lines 663-723 *)

\* demarrerThreads(), lines 666-680: reset, mesureActive = true, and the
\* acquisition task is created
DemarrerMesure(de, vers) ==
    /\ seq.pc = de
    /\ reinitialiserVariablesTest
    /\ mesureActive' = TRUE
    /\ mes' = [MesAbsente EXCEPT !.pc = "boucle"]
    /\ obs' = ObsApresReinit(obs)
    /\ seq' = [seq EXCEPT !.pc = vers]
    /\ UNCHANGED <<affichage, mutex, materiel, aff>>

\* demarrerThreads(), lines 683-694: the persistence task is created
DemarrerAffichage(de, vers) ==
    /\ seq.pc = de
    /\ aff' = [AffAbsente EXCEPT !.pc = "boucle"]
    /\ seq' = [seq EXCEPT !.pc = vers]
    /\ UNCHANGED <<buffer, stats, affichage, mutex, drapeaux, compteurs,
                   materiel, mes, obs>>

\* arreterThreads(), lines 703-704
DemanderArret(de, vers) ==
    /\ seq.pc = de
    /\ reinitialiserDemande' = TRUE
    /\ mesureActive' = FALSE
    /\ seq' = [seq EXCEPT !.pc = vers]
    /\ UNCHANGED <<buffer, stats, affichage, mutex, dacCourant, arretUrgence,
                   contactDetecte, compteurs, materiel, mes, aff, obs>>

TacheTermineeSansAttendre(pc) ==
    TRUE

\* the task has called vTaskDelete(NULL), lines 440 and 652
TacheTerminee(pc) ==
    pc = "supprimee"

\* lines 708 and 716, eTaskGetState(handle): a task that is alive never reads
\* as eDeleted; a task that deleted itself reads as eDeleted until the idle
\* task frees its control block, and after that the handle dangles and the
\* read returns whatever the freed memory holds
EtatsLus(pc) ==
    IF TacheTerminee(pc) THEN {"eDeleted", "eReady"} ELSE {"eReady"}

\* arreterThreads(), lines 707-712 and 715-720: one poll; the loop is left on
\* eDeleted, otherwise vTaskDelay(10 ms) and the poll is made again
AttendreTache(de, vers, pcTache) ==
    /\ seq.pc = de
    /\ \E etat \in EtatsLus(pcTache) :
          seq' = IF etat = "eDeleted" THEN [seq EXCEPT !.pc = vers] ELSE seq
    /\ UNCHANGED <<buffer, stats, affichage, mutex, drapeaux, compteurs,
                   materiel, mes, aff, obs>>

----------------------------------------------------------------------------
(* Sequencer, loop(), lines 906-1143 *)

\* lines 915-922: reset, actuation to zero, time origin, sweep locals
Seq_Debut ==
    /\ seq.pc = "debut"
    /\ reinitialiserVariablesTest
    /\ mesureActive' = FALSE
    /\ dacSortie' = 0
    /\ horloge' = 0
    /\ seq' = [SeqDebut EXCEPT !.pc = "ouvrir", !.testEnCours = TRUE]
    /\ obs' = [ObsApresReinit(obs) EXCEPT !.rapports = <<>>,
                                          !.causeFin = "aucune",
                                          !.surintensiteLue = FALSE,
                                          !.demarre = FALSE,
                                          !.niveauPause = -1]
    /\ UNCHANGED <<affichage, mutex, dataFile, numeroTest, boutonAppuye, env,
                   mes, aff>>

Seq_OuvrirSansRetour ==
    /\ seq.pc = "ouvrir"
    /\ \E ok \in BOOLEAN :
          IF ok
          THEN /\ dataFile' = [ouvert |-> TRUE, nonFlushes |-> 0]
               /\ seq' = [seq EXCEPT !.pc = "demarrer"]
               /\ obs' = [obs EXCEPT !.demarre = TRUE]
          ELSE /\ seq' = [seq EXCEPT !.pc = "demarrer"]
               /\ UNCHANGED <<dataFile, obs>>
    /\ UNCHANGED <<buffer, stats, affichage, mutex, drapeaux, compteurs,
                   numeroTest, boutonAppuye, dacSortie, horloge, env, mes, aff>>

\* lines 929-933: SD.open; on failure loop() returns and is entered again
Seq_Ouvrir ==
    /\ seq.pc = "ouvrir"
    /\ \E ok \in BOOLEAN :
          IF ok
          THEN /\ dataFile' = [ouvert |-> TRUE, nonFlushes |-> 0]
               /\ seq' = [seq EXCEPT !.pc = "demarrer"]
               /\ obs' = [obs EXCEPT !.demarre = TRUE]
          ELSE /\ seq' = SeqDebut
               /\ UNCHANGED <<dataFile, obs>>
    /\ UNCHANGED <<buffer, stats, affichage, mutex, drapeaux, compteurs,
                   numeroTest, boutonAppuye, dacSortie, horloge, env, mes, aff>>

\* line 936, demarrerThreads(tempsDebut)
Seq_Demarrer ==
    DemarrerMesure("demarrer", "demarrer_affichage")

Seq_DemarrerAffichage ==
    DemarrerAffichage("demarrer_affichage", "balayage")

\* lines 945-955: outer loop test, dacWrite(DAC_RELAIS, dacValue), dacCourant
Seq_Balayage ==
    /\ seq.pc = "balayage"
    /\ IF seq.dacValue <= DAC_MAX /\ seq.testEnCours
       THEN /\ dacSortie' = seq.dacValue
            /\ dacCourant' = seq.dacValue
            /\ seq' = [seq EXCEPT !.pc = "palier", !.tempsPalier = 0]
       ELSE /\ seq' = [seq EXCEPT !.pc = "fin_arreter"]
            /\ UNCHANGED <<dacSortie, dacCourant>>
    /\ obs' = [obs EXCEPT !.niveauPause = -1]
    /\ UNCHANGED <<buffer, stats, affichage, mutex, mesureActive, arretUrgence,
                   contactDetecte, reinitialiserDemande, compteurs, dataFile,
                   numeroTest, boutonAppuye, horloge, env, mes, aff>>

\* lines 956-961 and 1012-1015: dwell test, delay(25), contactLocal and
\* urgenceLocal; when the dwell is over, dacValue++
Seq_Palier ==
    /\ seq.pc = "palier"
    /\ seq' = IF seq.tempsPalier < DUREE_PALIER_MS
              THEN [seq EXCEPT !.pc = "verifier",
                               !.tempsPalier = @ + 1,
                               !.tempsEcoule = Min(@ + 1, DUREE_MAX_TEST_MS + 1),
                               !.contactLocal = contactDetecte,
                               !.urgenceLocal = arretUrgence]
              ELSE [seq EXCEPT !.pc = "balayage", !.dacValue = @ + 1]
    /\ UNCHANGED <<buffer, stats, affichage, mutex, drapeaux, compteurs,
                   materiel, mes, aff, obs>>

CauseFinUrgenceDabord(s, mesureActiveLocal) ==
    IF s.urgenceLocal THEN "urgence"
    ELSE IF s.contactLocal THEN "contact"
    ELSE IF s.tempsEcoule > DUREE_MAX_TEST_MS THEN "timeout"
    ELSE IF ~mesureActiveLocal /\ s.tempsPalier > DELAI_THREAD_ARRETE
         THEN "thread_arrete"
    ELSE "aucune"

\* lines 965-990: the four tests that end the sweep, in the order of the code
CauseFin(s, mesureActiveLocal) ==
    IF s.tempsEcoule > DUREE_MAX_TEST_MS THEN "timeout"
    ELSE IF s.urgenceLocal THEN "urgence"
    ELSE IF s.contactLocal THEN "contact"
    ELSE IF ~mesureActiveLocal /\ s.tempsPalier > DELAI_THREAD_ARRETE
         THEN "thread_arrete"
    ELSE "aucune"

\* lines 962-994: mesureActiveLocal, the end tests, then boutonAppuyeEtReset()
Seq_Verifier ==
    /\ seq.pc = "verifier"
    /\ LET cause == CauseFin(seq, mesureActive)
       IN  IF cause # "aucune"
           THEN /\ seq' = [seq EXCEPT !.pc = "balayage", !.testEnCours = FALSE,
                                      !.contactLocal = FALSE,
                                      !.urgenceLocal = FALSE]
                /\ obs' = [obs EXCEPT !.causeFin = cause]
                /\ UNCHANGED boutonAppuye
           ELSE IF boutonAppuye
           THEN /\ boutonAppuye' = FALSE
                /\ seq' = [seq EXCEPT !.pc = "pause_arreter",
                                      !.contactLocal = FALSE,
                                      !.urgenceLocal = FALSE]
                /\ obs' = [obs EXCEPT !.niveauPause = seq.dacValue]
           ELSE /\ seq' = [seq EXCEPT !.pc = "palier", !.contactLocal = FALSE,
                                      !.urgenceLocal = FALSE]
                /\ UNCHANGED <<boutonAppuye, obs>>
    /\ UNCHANGED <<buffer, stats, affichage, mutex, drapeaux, compteurs,
                   dataFile, numeroTest, dacSortie, horloge, env, mes, aff>>

\* line 995, arreterThreads()
Seq_PauseArreter ==
    DemanderArret("pause_arreter", "pause_attendre_mesure")

Seq_PauseAttendreMesure ==
    AttendreTache("pause_attendre_mesure", "pause_attendre_affichage", mes.pc)

Seq_PauseSansAttendreAffichage ==
    /\ seq.pc = "pause_attendre_affichage"
    /\ seq' = [seq EXCEPT !.pc = "pause_dac"]
    /\ UNCHANGED <<buffer, stats, affichage, mutex, drapeaux, compteurs,
                   materiel, mes, aff, obs>>

Seq_PauseAttendreAffichage ==
    AttendreTache("pause_attendre_affichage", "pause_dac", aff.pc)

Seq_PauseDacFerme ==
    /\ seq.pc = "pause_dac"
    /\ dacSortie' = 0
    /\ dataFile' = [ouvert |-> FALSE, nonFlushes |-> 0]
    /\ seq' = [seq EXCEPT !.pc = "pause_attente"]
    /\ UNCHANGED <<buffer, stats, affichage, mutex, drapeaux, compteurs,
                   numeroTest, boutonAppuye, horloge, env, mes, aff, obs>>

\* lines 996-1002: dacWrite(DAC_RELAIS, 0) and the pause screen
Seq_PauseDac ==
    /\ seq.pc = "pause_dac"
    /\ dacSortie' = 0
    /\ seq' = [seq EXCEPT !.pc = "pause_attente"]
    /\ UNCHANGED <<buffer, stats, affichage, mutex, drapeaux, compteurs,
                   dataFile, numeroTest, boutonAppuye, horloge, env, mes, aff,
                   obs>>

\* line 1004: while (!boutonAppuyeEtReset()) delay(100); the pause is short,
\* or it outlasts the ceiling on the test duration
Seq_PauseAttente ==
    /\ seq.pc = "pause_attente"
    /\ boutonAppuye
    /\ boutonAppuye' = FALSE
    /\ \E longue \in BOOLEAN :
          seq' = [seq EXCEPT !.pc = "reprise",
                             !.tempsEcoule = IF longue THEN DUREE_MAX_TEST_MS + 1
                                             ELSE @]
    /\ UNCHANGED <<buffer, stats, affichage, mutex, drapeaux, compteurs,
                   dataFile, numeroTest, dacSortie, horloge, env, mes, aff, obs>>

\* line 1007, demarrerThreads(tempsDebut)
Seq_Reprise ==
    DemarrerMesure("reprise", "reprise_affichage")

Seq_RepriseAffichage ==
    DemarrerAffichage("reprise_affichage", "apres_reprise")

\* lines 1008-1015: break, then if (testEnCours) dacValue++
Seq_ApresReprise ==
    /\ seq.pc = "apres_reprise"
    /\ seq' = [seq EXCEPT !.pc = "balayage",
                          !.dacValue = IF seq.testEnCours THEN @ + 1 ELSE @]
    /\ UNCHANGED <<buffer, stats, affichage, mutex, drapeaux, compteurs,
                   materiel, mes, aff, obs>>

\* line 1022, arreterThreads()
Seq_FinArreter ==
    DemanderArret("fin_arreter", "fin_attendre_mesure")

Seq_FinSansAttendreMesure ==
    /\ seq.pc = "fin_attendre_mesure"
    /\ seq' = [seq EXCEPT !.pc = "fin_attendre_affichage"]
    /\ UNCHANGED <<buffer, stats, affichage, mutex, drapeaux, compteurs,
                   materiel, mes, aff, obs>>

Seq_FinAttendreMesure ==
    AttendreTache("fin_attendre_mesure", "fin_attendre_affichage", mes.pc)

Seq_FinAttendreAffichage ==
    AttendreTache("fin_attendre_affichage", "fermer", aff.pc)

Seq_FermerSansDac ==
    /\ seq.pc = "fermer"
    /\ dataFile' = IF dataFile.ouvert THEN [ouvert |-> FALSE, nonFlushes |-> 0]
                   ELSE dataFile
    /\ seq' = [seq EXCEPT !.pc = "rapport"]
    /\ UNCHANGED <<buffer, stats, affichage, mutex, drapeaux, compteurs,
                   numeroTest, boutonAppuye, dacSortie, horloge, env, mes, aff,
                   obs>>

\* lines 1023-1030: dacWrite(DAC_RELAIS, 0), flush and close
Seq_Fermer ==
    /\ seq.pc = "fermer"
    /\ dacSortie' = 0
    /\ dataFile' = IF dataFile.ouvert THEN [ouvert |-> FALSE, nonFlushes |-> 0]
                   ELSE dataFile
    /\ seq' = [seq EXCEPT !.pc = "rapport"]
    /\ UNCHANGED <<buffer, stats, affichage, mutex, drapeaux, compteurs,
                   numeroTest, boutonAppuye, horloge, env, mes, aff, obs>>

RapportSansDernierCas(urgence, statsValides, contact) ==
    IF urgence THEN <<"SafetyAbort">>
    ELSE IF statsValides /\ contact THEN <<"Contact">>
    ELSE <<>>

\* lines 1057-1091: the outcomes the report prints
Rapport(urgence, statsValides, contact) ==
    IF urgence THEN <<"SafetyAbort">>
    ELSE IF statsValides /\ contact THEN <<"Contact">>
    ELSE <<"NoContact">>

\* lines 1037-1094: snapshot of the Detection State (100 ms lock), the report
Seq_Rapport ==
    /\ seq.pc = "rapport"
    /\ obs' = [obs EXCEPT !.rapports =
                  @ \o Rapport(arretUrgence, mutexStats = "libre",
                               stats.contact_detecte)]
    /\ seq' = [seq EXCEPT !.pc = "suivant"]
    /\ UNCHANGED <<buffer, stats, affichage, mutex, drapeaux, compteurs,
                   materiel, mes, aff>>

Seq_SuivantSansEffacer ==
    /\ seq.pc = "suivant"
    /\ IF numeroTest + 1 > NB_TESTS_TOTAL
       THEN /\ numeroTest' = 1
            /\ seq' = [seq EXCEPT !.pc = "attente_cycle"]
       ELSE /\ numeroTest' = numeroTest + 1
            /\ seq' = [seq EXCEPT !.pc = "rebours", !.rebours = NB_REBOURS]
    /\ UNCHANGED <<buffer, stats, affichage, mutex, drapeaux, compteurs,
                   dataFile, boutonAppuye, dacSortie, horloge, env, mes, aff,
                   obs>>

\* lines 1101-1117: numeroTest++; at the end of the cycle, back to 1 and the
\* pending press is discarded
Seq_Suivant ==
    /\ seq.pc = "suivant"
    /\ IF numeroTest + 1 > NB_TESTS_TOTAL
       THEN /\ numeroTest' = 1
            /\ boutonAppuye' = FALSE
            /\ seq' = [seq EXCEPT !.pc = "attente_cycle"]
       ELSE /\ numeroTest' = numeroTest + 1
            /\ seq' = [seq EXCEPT !.pc = "rebours", !.rebours = NB_REBOURS]
            /\ UNCHANGED boutonAppuye
    /\ UNCHANGED <<buffer, stats, affichage, mutex, drapeaux, compteurs,
                   dataFile, dacSortie, horloge, env, mes, aff, obs>>

\* lines 1118-1120: while (!boutonAppuyeEtReset()) delay(100)
Seq_AttenteCycle ==
    /\ seq.pc = "attente_cycle"
    /\ boutonAppuye
    /\ boutonAppuye' = FALSE
    /\ seq' = [seq EXCEPT !.pc = "rebours", !.rebours = NB_REBOURS]
    /\ UNCHANGED <<buffer, stats, affichage, mutex, drapeaux, compteurs,
                   dataFile, numeroTest, dacSortie, horloge, env, mes, aff, obs>>

\* lines 1132-1143: one second of the countdown; a press pauses it, and when
\* the seconds are used up loop() returns
Seq_Rebours ==
    /\ seq.pc = "rebours"
    /\ IF seq.rebours = 0
       THEN /\ seq' = SeqDebut
            /\ UNCHANGED boutonAppuye
       ELSE IF boutonAppuye
       THEN /\ boutonAppuye' = FALSE
            /\ seq' = [seq EXCEPT !.pc = "attendre_appui"]
       ELSE /\ seq' = [seq EXCEPT !.rebours = @ - 1]
            /\ UNCHANGED boutonAppuye
    /\ UNCHANGED <<buffer, stats, affichage, mutex, drapeaux, compteurs,
                   dataFile, numeroTest, dacSortie, horloge, env, mes, aff, obs>>

\* attendreAppuiBouton(), lines 759-771: the pause text, boutonAppuye = false
Seq_AttendreAppui ==
    /\ seq.pc = "attendre_appui"
    /\ affichage' = IF mutexAffichage = "libre"
                    THEN [affichage EXCEPT !.change = TRUE]
                    ELSE affichage
    /\ boutonAppuye' = FALSE
    /\ seq' = [seq EXCEPT !.pc = "attendre_appui_boucle"]
    /\ UNCHANGED <<buffer, stats, mutex, drapeaux, compteurs, dataFile,
                   numeroTest, dacSortie, horloge, env, mes, aff, obs>>

\* attendreAppuiBouton(), lines 772-775, then break at line 1138
Seq_AttendreAppuiBoucle ==
    /\ seq.pc = "attendre_appui_boucle"
    /\ boutonAppuye
    /\ boutonAppuye' = FALSE
    /\ seq' = [seq EXCEPT !.pc = "rebours", !.rebours = @ - 1]
    /\ UNCHANGED <<buffer, stats, affichage, mutex, drapeaux, compteurs,
                   dataFile, numeroTest, dacSortie, horloge, env, mes, aff, obs>>

\* gestionBoutonBoot(), lines 733-739: a press past the debounce interval
Bouton ==
    /\ env.bouton
    /\ ~boutonAppuye
    /\ boutonAppuye' = TRUE
    /\ UNCHANGED <<buffer, stats, affichage, mutex, drapeaux, compteurs,
                   dataFile, numeroTest, dacSortie, horloge, env, seq, mes,
                   aff, obs>>

----------------------------------------------------------------------------

Next ==
    \/ Mes_Boucle \/ Mes_Securite \/ Mes_SecuriteArret \/ Mes_PrendreStats
    \/ Mes_Stabiliser \/ Mes_RendreStats \/ Mes_PrendreBuffer
    \/ Mes_RendreBuffer
    \/ Aff_Boucle \/ Aff_PrendreBuffer \/ Aff_RendreBuffer \/ Aff_CopierStats
    \/ Aff_RendreStats \/ Aff_LireDerniere \/ Aff_RendreDerniere
    \/ Aff_Preparer \/ Aff_Rafraichir
    \/ Seq_Debut \/ Seq_Ouvrir \/ Seq_Demarrer \/ Seq_DemarrerAffichage
    \/ Seq_Balayage \/ Seq_Palier \/ Seq_Verifier
    \/ Seq_PauseArreter \/ Seq_PauseAttendreMesure
    \/ Seq_PauseAttendreAffichage \/ Seq_PauseDac \/ Seq_PauseAttente
    \/ Seq_Reprise \/ Seq_RepriseAffichage \/ Seq_ApresReprise
    \/ Seq_FinArreter \/ Seq_FinAttendreMesure \/ Seq_FinAttendreAffichage
    \/ Seq_Fermer \/ Seq_Rapport \/ Seq_Suivant \/ Seq_AttenteCycle
    \/ Seq_Rebours \/ Seq_AttendreAppui \/ Seq_AttendreAppuiBoucle
    \/ Bouton

Spec ==
    Init /\ [][Next]_vars

----------------------------------------------------------------------------
(* Properties *)

\* positions of loop() between the opening of the storage and the report
AvantRapport ==
    {"demarrer", "demarrer_affichage", "balayage", "palier", "verifier",
     "pause_arreter", "pause_attendre_mesure", "pause_attendre_affichage",
     "pause_dac", "pause_attente", "reprise", "reprise_affichage",
     "apres_reprise", "fin_arreter", "fin_attendre_mesure",
     "fin_attendre_affichage", "fermer", "rapport"}

\* C1: a TestRun in which the acquisition task read a current above the
\* ceiling (and raised arretUrgence) is reported as SafetyAbort, whatever the
\* interleaving with the poll of loop(), a pause handled in that poll included.
C1_SurintensiteRapportee ==
    (obs.surintensiteLue /\ obs.rapports # <<>>)
        => obs.rapports = <<"SafetyAbort">>

\* C2: between the opening of a TestRun and its report, once
\* stats.contact_detecte is true it stays true and the confirmed resistance,
\* the first-contact time and the level at contact keep their values.
C2_ContactMonotone ==
    [][(obs.demarre /\ seq.pc \in AvantRapport /\ stats.contact_detecte)
          => /\ stats'.contact_detecte
             /\ stats'.r_contact_initiale = stats.r_contact_initiale
             /\ stats'.temps_premier_contact_us = stats.temps_premier_contact_us
             /\ stats'.dac_contact = stats.dac_contact]_vars

\* C3: a started TestRun has reported nothing before its report step and
\* exactly one outcome, one of the four, from the report step on; a run that
\* did not start reports nothing.
C3_UnSeulResultat ==
    /\ \A i \in 1..Len(obs.rapports) : obs.rapports[i] \in Resultats
    /\ Len(obs.rapports) <= 1
    /\ obs.demarre => (Len(obs.rapports) = 1 <=> seq.pc \notin AvantRapport)
    /\ ~obs.demarre => obs.rapports = <<>>

C3_Temoin ==
    seq.pc = "suivant" /\ obs.demarre /\ obs.rapports = <<"NoContact">>

\* C4: a TestRun whose sweep was ended by the timeout test reports Timeout.
C4_TimeoutRapporte ==
    (obs.causeFin = "timeout" /\ obs.rapports # <<>>)
        => obs.rapports = <<"Timeout">>

\* C5: the restart of the tasks that ends a pause leaves the Detection State
\* (stats) as the stopped tasks left it.
C5_PauseConserveDetection ==
    [][(seq.pc = "reprise" /\ seq'.pc # "reprise") => stats' = stats]_vars

\* C6: the first step loop() takes in the sweep after a resume applies the
\* level that was held when the pause was requested.
C6_RepriseMemeNiveau ==
    [][(seq.pc = "balayage" /\ obs.niveauPause # -1 /\ seq' # seq)
          => (seq'.pc = "palier" /\ dacSortie' = obs.niveauPause)]_vars

\* C7: while loop() waits for the second press of a pause, neither task is
\* alive and the DAC output is zero; the wait ends only by consuming a press,
\* and the tasks are still not alive when it ends.
C7_PauseSansTache ==
    /\ [](seq.pc = "pause_attente"
             => ~Vivante(mes.pc) /\ ~Vivante(aff.pc) /\ dacSortie = 0)
    /\ [][(seq.pc = "pause_attente" /\ seq'.pc # "pause_attente")
             => /\ boutonAppuye /\ ~boutonAppuye'
                /\ seq'.pc = "reprise"
                /\ ~Vivante(mes'.pc) /\ ~Vivante(aff'.pc)]_vars

C7_Temoin ==
    /\ seq.pc = "pause_attente"
    /\ mes.pc = "supprimee" /\ aff.pc = "supprimee"
    /\ boutonAppuye

\* C8: the count of the buffer is between 0 and the capacity and equals the
\* accepted pushes minus the pops since the last reset of the indices.
C8_CompteBorne ==
    /\ 0 <= buffer.count
    /\ buffer.count <= TAILLE_BUFFER
    /\ buffer.count = Len(obs.pousses) - Len(obs.depiles)

C8_Temoin ==
    buffer.count = TAILLE_BUFFER /\ Len(obs.depiles) > 0

\* C9: the samples popped since the last reset are, in order, the first of
\* the samples pushed since that reset.
C9_FIFO ==
    /\ Len(obs.depiles) <= Len(obs.pousses)
    /\ \A i \in 1..Len(obs.depiles) : obs.depiles[i] = obs.pousses[i]

C9_Temoin ==
    Len(obs.depiles) >= 2 /\ Len(obs.pousses) > Len(obs.depiles)

\* C10: a push on a full buffer changes neither the samples nor the indices
\* nor the count, and the acquisition task is never blocked at its push: it
\* goes on to release the lock.
C10_PousserPleinSansEffet ==
    /\ []((mes.pc = "prendre_buffer" /\ buffer.count = TAILLE_BUFFER)
             => ENABLED Mes_PrendreBuffer)
    /\ [][(mes.pc = "prendre_buffer" /\ mutexBuffer = "libre"
              /\ buffer.count = TAILLE_BUFFER /\ mes' # mes)
             => (buffer' = buffer /\ mes'.pc = "rendre_buffer")]_vars

C10_Temoin ==
    /\ mes.pc = "rendre_buffer"
    /\ buffer.count = TAILLE_BUFFER
    /\ obs.refus > 0

\* C11 (as stated): in every state the count equals (tete - queue) modulo the
\* capacity, the full buffer included.
C11_CompteModulo ==
    buffer.count = (buffer.tete - buffer.queue) % TAILLE_BUFFER

\* C11 (amended): the count and tete - queue are congruent modulo the
\* capacity; a buffer that is neither empty nor full has
\* count = (tete - queue) mod capacity, and a full one has tete = queue with
\* count equal to the capacity.
C11_CompteCongru ==
    /\ buffer.count % TAILLE_BUFFER
          = (buffer.tete - buffer.queue) % TAILLE_BUFFER
    /\ buffer.count < TAILLE_BUFFER
          => buffer.count = (buffer.tete - buffer.queue) % TAILLE_BUFFER
    /\ buffer.count = TAILLE_BUFFER => buffer.tete = buffer.queue

C11_Temoin ==
    /\ buffer.count = TAILLE_BUFFER
    /\ buffer.tete = buffer.queue
    /\ buffer.queue # 0

----------------------------------------------------------------------------
(* The stabilisation phase of the acquisition task, lines 349-415, one     *)
(* reading per step.  In Spec the phase is the single step Mes_Stabiliser  *)
(* (its readings are local to the task); here the task is followed from    *)
(* its entry in the phase, over more values of the readings.               *)

\* the values calculerResistance() can hand to one stabilisation, by run
EnvironnementsStabilisation ==
    { [lectures |-> {98, 99, 100, 101, 102, calculerResistance(CODE_INVALIDE)}],
      [lectures |-> {10, 50, 100, 300, 400}],
      [lectures |-> {2, 4, 5, 6, 8}],
      [lectures |-> {calculerResistance(CODE_377),
                     calculerResistance(CODE_INVALIDE)}] }

\* the program when the acquisition task, in its first cycle, has taken
\* mutexStats, stored r_courante and found a potential contact (line 338)
InitStabilisation ==
    /\ buffer = BufferZero
    /\ stats = [StatsZero EXCEPT !.r_courante = calculerResistance(CODE_377)]
    /\ affichage = [change |-> FALSE]
    /\ mutexBuffer = "libre"
    /\ mutexStats = "mesure"
    /\ mutexAffichage = "libre"
    /\ mesureActive = TRUE
    /\ dacCourant = 0
    /\ arretUrgence = FALSE
    /\ contactDetecte = FALSE
    /\ reinitialiserDemande = FALSE
    /\ nbMesuresTotal = 0
    /\ nbMesuresSauvees = 0
    /\ dataFile = [ouvert |-> TRUE, nonFlushes |-> 0]
    /\ numeroTest = 1
    /\ boutonAppuye = FALSE
    /\ dacSortie = 0
    /\ horloge = 1
    /\ seq = [SeqDebut EXCEPT !.pc = "palier", !.testEnCours = TRUE]
    /\ mes = [pc |-> "stabiliser",
              mesureLocale |-> [temps_us |-> 1, courant_mA |-> 0,
                                raw_diff |-> CODE_377, dac |-> 0],
              contactDetecteLocal |-> FALSE,
              resistances |-> <<>>,
              stabilisationOK |-> TRUE]
    /\ aff = [AffAbsente EXCEPT !.pc = "boucle"]
    /\ obs = [ObsDebut EXCEPT !.demarre = TRUE]
    /\ env \in EnvironnementsStabilisation

\* lines 354-371: one iteration of the acquisition loop of the phase
Stab_Lire ==
    /\ mes.pc = "stabiliser"
    /\ Len(mes.resistances) < NB_MESURES_STABILISATION
    /\ \E r \in env.lectures :
          mes' = [mes EXCEPT !.resistances = Append(@, r),
                             !.stabilisationOK = @ /\ resistanceValide(r)]
    /\ UNCHANGED <<buffer, stats, affichage, mutex, drapeaux, compteurs,
                   materiel, seq, aff, obs>>

\* lines 374-415: the verdict once the loop is over
Stab_Verdict ==
    /\ mes.pc = "stabiliser"
    /\ Len(mes.resistances) = NB_MESURES_STABILISATION
    /\ IF mes.stabilisationOK /\ CoefficientAccepte(mes.resistances)
       THEN /\ stats' = ConfirmerContact(stats, mes.mesureLocale,
                                         Moyenne(mes.resistances))
            /\ contactDetecte' = TRUE
            /\ mes' = [mes EXCEPT !.pc = "rendre_stats",
                                  !.contactDetecteLocal = TRUE]
       ELSE /\ mes' = [mes EXCEPT !.pc = "rendre_stats"]
            /\ UNCHANGED <<stats, contactDetecte>>
    /\ UNCHANGED <<buffer, affichage, mutex, mesureActive, dacCourant,
                   arretUrgence, reinitialiserDemande, compteurs, materiel,
                   seq, aff, obs>>

NextStabilisation ==
    Stab_Lire \/ Stab_Verdict

SpecStabilisation ==
    InitStabilisation /\ [][NextStabilisation]_vars

RECURSIVE SommeCarres(_)
SommeCarres(rs) ==
    IF rs = <<>> THEN 0 ELSE Head(rs) * Head(rs) + SommeCarres(Tail(rs))

\* population standard deviation / mean * 100 < 40, squared:
\* 100^2 * (n * sum r^2 - S^2) < 40^2 * S^2, both sides divided by 20^2
CVSous40(rs) ==
    LET n == Len(rs)
        S == Somme(rs)
    IN  25 * (n * SommeCarres(rs) - S * S) < 4 * S * S

\* C12: when the stabilisation phase has given its verdict, the contact is
\* confirmed if and only if the 5 readings are all valid and their
\* coefficient of variation is strictly below 40; [100,102,98,101,99] is
\* accepted, [100,300,50,400,10] and [2,4,5,6,8] (CV exactly 40) are rejected.
C12_ConfirmeSsi ==
    mes.pc = "rendre_stats"
        => LET rs == mes.resistances
           IN  /\ Len(rs) = 5
               /\ (stats.contact_detecte /\ contactDetecte)
                     <=> ((\A i \in 1..5 : resistanceValide(rs[i]))
                              /\ CVSous40(rs))
               /\ stats.contact_detecte <=> contactDetecte
               /\ rs = <<100, 102, 98, 101, 99>> => stats.contact_detecte
               /\ rs = <<100, 300, 50, 400, 10>> => ~stats.contact_detecte
               /\ rs = <<2, 4, 5, 6, 8>> => ~stats.contact_detecte

C12_Temoin ==
    /\ mes.pc = "rendre_stats"
    /\ mes.resistances = <<100, 102, 98, 101, 99>>
    /\ stats.contact_detecte

\* C13: in the stabilisation phase no reading is acquired after an invalid
\* one, and a phase with an invalid reading does not confirm the contact.
C13_InvalideArrete ==
    /\ \A i \in 1..Len(mes.resistances) :
          ~resistanceValide(mes.resistances[i]) => i = Len(mes.resistances)
    /\ (mes.pc = "rendre_stats"
           /\ \E i \in 1..Len(mes.resistances) :
                 ~resistanceValide(mes.resistances[i]))
          => ~stats.contact_detecte

\* C14: once a stop of the tasks has completed (both waits of
\* arreterThreads() are over) the buffer is empty: the persistence task
\* outlived the acquisition task and drained every pushed sample.
C14_ToutPersiste ==
    seq.pc \in {"pause_dac", "fermer"}
        => (~Vivante(mes.pc) /\ ~Vivante(aff.pc) /\ buffer.count = 0)

\* positions of loop() from which the next step is a reset of the shared
\* state: line 915, and line 666 reached from line 936 or from line 1007
AvantReinit ==
    {"debut", "demarrer", "reprise"}

\* positions of loop() between the end of a stop of the tasks and the next
\* creation of the acquisition task
TachesArretees ==
    {"debut", "ouvrir", "demarrer", "pause_dac", "pause_attente", "reprise",
     "fermer", "rapport", "suivant", "attente_cycle", "rebours",
     "attendre_appui", "attendre_appui_boucle"}

\* C15: whenever loop() is about to reset the shared state, and from the end
\* of each stop to the next start, neither task is alive; the shared state
\* changes in a reset step only with both tasks not alive.
C15_ReinitSansTache ==
    /\ [](seq.pc \in AvantReinit \cup TachesArretees
             => (~Vivante(mes.pc) /\ ~Vivante(aff.pc)))
    /\ [][(seq.pc \in AvantReinit /\ seq'.pc # seq.pc
              /\ <<stats, buffer, drapeaux, compteurs>>'
                    # <<stats, buffer, drapeaux, compteurs>>)
             => (~Vivante(mes.pc) /\ ~Vivante(aff.pc))]_vars

C15_Temoin ==
    /\ seq.pc = "reprise"
    /\ mes.pc = "supprimee" /\ aff.pc = "supprimee"
    /\ stats # StatsZero /\ buffer.count > 0

\* C16: no context is ever blocked at a lock: at each position where a
\* context takes mutexBuffer, mutexStats or mutexAffichage its step can be
\* taken whoever holds the lock, and a step taken while another context holds
\* the lock leaves the lock and the state it guards untouched and moves on.
C16_PriseBornee ==
    /\ [](/\ mes.pc = "prendre_stats" => ENABLED Mes_PrendreStats
          /\ mes.pc = "prendre_buffer" => ENABLED Mes_PrendreBuffer
          /\ aff.pc = "prendre_buffer" => ENABLED Aff_PrendreBuffer
          /\ aff.pc = "copier_stats" => ENABLED Aff_CopierStats
          /\ aff.pc = "lire_derniere" => ENABLED Aff_LireDerniere
          /\ aff.pc = "preparer" => ENABLED Aff_Preparer
          /\ aff.pc = "rafraichir" => ENABLED Aff_Rafraichir
          /\ seq.pc = "debut" => ENABLED Seq_Debut
          /\ seq.pc = "demarrer" => ENABLED Seq_Demarrer
          /\ seq.pc = "reprise" => ENABLED Seq_Reprise
          /\ seq.pc = "attendre_appui" => ENABLED Seq_AttendreAppui
          /\ seq.pc = "rapport" => ENABLED Seq_Rapport)
    /\ [][/\ (mes.pc = "prendre_stats" /\ mutexStats # "libre" /\ mes' # mes)
                => (stats' = stats /\ mutexStats' = mutexStats
                       /\ mes'.pc = "prendre_buffer")
          /\ (mes.pc = "prendre_buffer" /\ mutexBuffer # "libre" /\ mes' # mes)
                => (buffer' = buffer /\ mutexBuffer' = mutexBuffer
                       /\ mes'.pc \in {"boucle", "supprimee"})
          /\ (aff.pc = "prendre_buffer" /\ mutexBuffer # "libre" /\ aff' # aff)
                => (buffer' = buffer /\ mutexBuffer' = mutexBuffer
                       /\ aff'.pc \in {"copier_stats", "boucle"})
          /\ (aff.pc = "copier_stats" /\ mutexStats # "libre" /\ aff' # aff)
                => (stats' = stats /\ mutexStats' = mutexStats
                       /\ aff'.pc = "lire_derniere")
          /\ (aff.pc = "lire_derniere" /\ mutexBuffer # "libre" /\ aff' # aff)
                => (buffer' = buffer /\ mutexBuffer' = mutexBuffer
                       /\ aff'.pc = "preparer")]_vars

C16_Temoin ==
    /\ mes.pc = "prendre_buffer"
    /\ mutexBuffer = "affichage"
    /\ aff.pc = "rendre_buffer"

\* C17: the acquisition cycle whose push finds the buffer full still adds one
\* to nbMesuresTotal.
C17_TotalCompteRefus ==
    [][(mes.pc = "prendre_buffer" /\ mutexBuffer = "libre"
           /\ buffer.count = TAILLE_BUFFER /\ mes' # mes)
          => nbMesuresTotal' = nbMesuresTotal + 1]_vars

\* C18: the records appended to the storage since its last flush never
\* exceed the flush period.
C18_FlushPeriodique ==
    dataFile.nonFlushes <= PERIODE_FLUSH

\* C19: numeroTest stays in 1..NB_TESTS_TOTAL; it changes only in the step
\* that follows a report, by one, or from NB_TESTS_TOTAL back to 1; after the
\* wrap loop() waits with no press pending and goes on only by consuming a
\* press made during the wait.
C19_CompteurTests ==
    /\ [](numeroTest \in 1..NB_TESTS_TOTAL)
    /\ [][numeroTest' # numeroTest
             => (seq.pc = "suivant" /\ Len(obs.rapports) = 1)]_vars
    /\ [][(seq.pc = "suivant" /\ seq'.pc # "suivant")
             => IF numeroTest = NB_TESTS_TOTAL
                THEN /\ numeroTest' = 1
                     /\ seq'.pc = "attente_cycle"
                     /\ ~boutonAppuye'
                ELSE /\ numeroTest' = numeroTest + 1
                     /\ seq'.pc = "rebours"]_vars
    /\ [][(seq.pc = "attente_cycle" /\ seq'.pc # "attente_cycle")
             => (boutonAppuye /\ ~boutonAppuye' /\ seq'.pc = "rebours")]_vars

C19_Temoin ==
    /\ seq.pc = "attente_cycle"
    /\ numeroTest = 1
    /\ boutonAppuye
    /\ obs.rapports # <<>>

\* C20: when SD.open fails, loop() returns to its entry: no task is created,
\* the DAC output stays at zero, nothing is reported and numeroTest keeps its
\* value; a task is alive only while the file is open.
C20_EchecOuverture ==
    /\ []((Vivante(mes.pc) \/ Vivante(aff.pc)) => dataFile.ouvert)
    /\ [][(seq.pc = "ouvrir" /\ seq' # seq /\ ~dataFile'.ouvert)
             => /\ seq' = SeqDebut
                /\ ~Vivante(mes'.pc) /\ ~Vivante(aff'.pc)
                /\ ~mesureActive'
                /\ dacSortie' = 0
                /\ obs'.rapports = <<>>
                /\ numeroTest' = numeroTest]_vars

C20_Temoin ==
    /\ seq.pc = "debut"
    /\ numeroTest = NB_TESTS_TOTAL
    /\ ~obs.demarre
    /\ obs.rapports = <<>>
    /\ ~dataFile.ouvert
    /\ dacSortie = 0
    /\ ~Vivante(mes.pc) /\ ~Vivante(aff.pc)

\* C21: the elapsed time of a TestRun never goes back between the opening of
\* the storage and the report, a pause and its resume included; a poll of
\* loop() that finds it above DUREE_MAX_TEST_MS ends the sweep as a timeout,
\* whatever the level, contactLocal and urgenceLocal are, and the sweep then
\* goes to the end of the test without writing the DAC again.
C21_TimeoutGlobal ==
    /\ [][(seq.pc \in AvantRapport /\ seq'.pc \in AvantRapport)
             => seq'.tempsEcoule >= seq.tempsEcoule]_vars
    /\ [][(seq.pc = "verifier" /\ seq.tempsEcoule > DUREE_MAX_TEST_MS
             /\ seq' # seq)
             => /\ seq'.pc = "balayage"
                /\ ~seq'.testEnCours
                /\ obs'.causeFin = "timeout"
                /\ boutonAppuye' = boutonAppuye]_vars
    /\ [][(seq.pc = "balayage" /\ ~seq.testEnCours /\ seq' # seq)
             => (seq'.pc = "fin_arreter" /\ dacSortie' = dacSortie)]_vars

C21_Temoin ==
    /\ seq.pc = "fin_arreter"
    /\ obs.causeFin = "timeout"
    /\ arretUrgence
    /\ seq.dacValue = DAC_MAX
    /\ seq.tempsPalier = 1

\* C22: a poll of loop() that read arretUrgence as true ends the sweep; from
\* the end of the sweep to the report the DAC output is only ever written to
\* zero, and at the report it is zero and neither task is alive.
C22_ArretUrgenceDefinitif ==
    /\ [](seq.pc = "rapport"
             => dacSortie = 0 /\ ~Vivante(mes.pc) /\ ~Vivante(aff.pc))
    /\ [][(seq.pc = "verifier" /\ seq.urgenceLocal /\ seq' # seq)
             => /\ seq'.pc = "balayage"
                /\ ~seq'.testEnCours
                /\ dacSortie' = dacSortie]_vars
    /\ [][(seq.pc \in AvantRapport /\ ~seq.testEnCours)
             => /\ dacSortie' \in {dacSortie, 0}
                /\ seq'.pc \in AvantRapport => ~seq'.testEnCours]_vars

C22_Temoin ==
    /\ seq.pc = "rapport"
    /\ obs.causeFin = "urgence"
    /\ arretUrgence
    /\ seq.dacValue = DAC_MAX
    /\ dacSortie = 0

----------------------------------------------------------------------------
(* The estimator on its own: the acquisition task in its first cycle, with *)
(* any code the ADC can return, up to the call of calculerResistance().    *)

\* int16_t rawDiff
CODE_MIN == -(2 ^ 15)
CODE_MAX == 2 ^ 15 - 1

\* lines 312-319: the sensors were read, raw_diff is any signed 16-bit code
InitEstimateur ==
    /\ buffer = BufferZero
    /\ stats = StatsZero
    /\ affichage = [change |-> FALSE]
    /\ mutexBuffer = "libre"
    /\ mutexStats = "libre"
    /\ mutexAffichage = "libre"
    /\ mesureActive = TRUE
    /\ dacCourant = 0
    /\ arretUrgence = FALSE
    /\ contactDetecte = FALSE
    /\ reinitialiserDemande = FALSE
    /\ nbMesuresTotal = 0
    /\ nbMesuresSauvees = 0
    /\ dataFile = [ouvert |-> TRUE, nonFlushes |-> 0]
    /\ numeroTest = 1
    /\ boutonAppuye = FALSE
    /\ dacSortie = 0
    /\ horloge = 1
    /\ seq = [SeqDebut EXCEPT !.pc = "palier", !.testEnCours = TRUE]
    /\ aff = [AffAbsente EXCEPT !.pc = "boucle"]
    /\ obs = [ObsDebut EXCEPT !.demarre = TRUE]
    /\ env \in {e \in Environnements : ~e.bouton}
    /\ \E code \in CODE_MIN..CODE_MAX :
          mes = [pc |-> "lu",
                 mesureLocale |-> [temps_us |-> 1, courant_mA |-> 0,
                                   raw_diff |-> code, dac |-> 0],
                 contactDetecteLocal |-> FALSE,
                 r_contact |-> 0]

\* line 322: float r_contact = calculerResistance(mesureLocale.raw_diff)
Est_Calculer ==
    /\ mes.pc = "lu"
    /\ mes' = [mes EXCEPT !.pc = "calcule",
                          !.r_contact =
                              calculerResistance(mes.mesureLocale.raw_diff)]
    /\ UNCHANGED <<buffer, stats, affichage, mutex, drapeaux, compteurs,
                   materiel, seq, aff, obs>>

NextEstimateur ==
    Est_Calculer

SpecEstimateur ==
    InitEstimateur /\ [][NextEstimateur]_vars

\* C23: for every signed 16-bit code, calculerResistance() returns the
\* sentinel or a resistance strictly between 0 and SEUIL_RESISTANCE_MAX, and
\* it returns the sentinel for the code that cancels Vexc - 2 Vd.
C23_EstimateurBorne ==
    mes.pc = "calcule"
        => /\ \/ mes.r_contact = R_INVALIDE
              \/ 0 < mes.r_contact /\ mes.r_contact < SEUIL_RESISTANCE_MAX
           /\ VEXC_LSB - mes.mesureLocale.raw_diff = 0
                 => mes.r_contact = R_INVALIDE

C23_Temoin ==
    /\ mes.pc = "calcule"
    /\ mes.mesureLocale.raw_diff = CODE_INVALIDE
    /\ mes.r_contact = R_INVALIDE

----------------------------------------------------------------------------
(* Progress.  Both tasks and loop() are scheduled again and again: the     *)
(* acquisition task has core 0 to itself, the persistence task sleeps 5 ms *)
(* per cycle and loop() polls with delay().  The polls of arreterThreads() *)
(* are made again and again as well, but nothing makes one of them read    *)
(* eDeleted (EtatsLus), so no fairness is stated for the step that leaves  *)
(* the poll.  The 10 ms save period of the persistence task elapses again  *)
(* and again.  No press of the button is ever required.                    *)

MesNext ==
    \/ Mes_Boucle \/ Mes_Securite \/ Mes_SecuriteArret \/ Mes_PrendreStats
    \/ Mes_Stabiliser \/ Mes_RendreStats \/ Mes_PrendreBuffer
    \/ Mes_RendreBuffer

AffNext ==
    \/ Aff_Boucle \/ Aff_PrendreBuffer \/ Aff_RendreBuffer \/ Aff_CopierStats
    \/ Aff_RendreStats \/ Aff_LireDerniere \/ Aff_RendreDerniere
    \/ Aff_Preparer \/ Aff_Rafraichir

SeqSansAttente ==
    \/ Seq_Debut \/ Seq_Ouvrir \/ Seq_Demarrer \/ Seq_DemarrerAffichage
    \/ Seq_Balayage \/ Seq_Palier \/ Seq_Verifier
    \/ Seq_PauseArreter \/ Seq_PauseDac \/ Seq_PauseAttente
    \/ Seq_Reprise \/ Seq_RepriseAffichage \/ Seq_ApresReprise
    \/ Seq_FinArreter \/ Seq_Fermer \/ Seq_Rapport \/ Seq_Suivant
    \/ Seq_AttenteCycle \/ Seq_Rebours \/ Seq_AttendreAppui
    \/ Seq_AttendreAppuiBoucle

SpecEquitable ==
    /\ Spec
    /\ WF_vars(MesNext)
    /\ WF_vars(AffNext)
    /\ WF_vars(SeqSansAttente)
    /\ SF_vars(Aff_Boucle /\ aff'.pc = "prendre_buffer")

\* positions of loop() inside the polls of arreterThreads()
AttenteTaches ==
    {"pause_attendre_mesure", "pause_attendre_affichage",
     "fin_attendre_mesure", "fin_attendre_affichage"}

C25_DetectionUnique ==
    /\ [](mes.contactDetecteLocal
             => /\ mes.pc \in {"rendre_stats", "prendre_buffer", "rendre_buffer"}
                /\ stats.contact_detecte
                /\ stats.temps_premier_contact_us = mes.mesureLocale.temps_us)
    /\ [][(mes.contactDetecteLocal /\ mes' # mes)
             => /\ horloge' = horloge
                /\ stats' = stats
                /\ \/ /\ mes.pc = "rendre_stats"
                      /\ mes'.pc = "prendre_buffer"
                      /\ buffer' = buffer
                   \/ /\ mes.pc = "prendre_buffer"
                      /\ mes'.pc \in {"rendre_buffer", "supprimee"}
                      /\ buffer' \in {buffer, Pousser(buffer, mes.mesureLocale)}
                   \/ /\ mes.pc = "rendre_buffer"
                      /\ mes'.pc = "supprimee"
                      /\ buffer' = buffer
                /\ mes'.pc # "supprimee"
                      => /\ mes'.contactDetecteLocal
                         /\ mes'.mesureLocale = mes.mesureLocale]_vars

C25_Temoin ==
    /\ mes.contactDetecteLocal
    /\ mes.pc = "rendre_buffer"
    /\ obs.pousses # <<>>
    /\ obs.pousses[Len(obs.pousses)] = mes.mesureLocale

\* C26: a task holds at most one of the three mutexes at a time, it holds
\* one only between a take and the give that follows it in its own code, and
\* a task that is not alive holds none.
C26_UnVerrouParTache ==
    /\ \A c \in {"mesure", "affichage"} :
          Cardinality({i \in 1..3 :
                          <<mutexBuffer, mutexStats, mutexAffichage>>[i] = c}) <= 1
    /\ {mutexBuffer, mutexStats, mutexAffichage}
          \subseteq {"libre", "mesure", "affichage"}
    /\ mutexStats = "mesure" <=> mes.pc \in {"stabiliser", "rendre_stats"}
    /\ mutexBuffer = "mesure" <=> mes.pc = "rendre_buffer"
    /\ mutexAffichage # "mesure"
    /\ mutexBuffer = "affichage"
          <=> aff.pc \in {"rendre_buffer", "rendre_derniere"}
    /\ mutexStats = "affichage" <=> aff.pc = "rendre_stats"
    /\ mutexAffichage = "affichage" => aff.pc = "rafraichir"
    /\ ~Vivante(mes.pc)
          => "mesure" \notin {mutexBuffer, mutexStats, mutexAffichage}
    /\ ~Vivante(aff.pc)
          => "affichage" \notin {mutexBuffer, mutexStats, mutexAffichage}

C26_Temoin ==
    /\ mutexStats = "mesure"
    /\ mes.pc = "rendre_stats"
    /\ mutexBuffer = "affichage"
    /\ aff.pc = "rendre_buffer"

\* C27: arretUrgence and contactDetecte are never both true; the task that
\* raised arretUrgence ends without a detection step, and a task is created
\* with both flags cleared.
C27_DrapeauxExclusifs ==
    /\ [](~(arretUrgence /\ contactDetecte))
    /\ [][(mes.pc \in {"securite", "securite_arret"} /\ mes' # mes)
             => (mes'.pc \in {"securite_arret", "supprimee"}
                    /\ stats' = stats /\ contactDetecte' = contactDetecte)]_vars
    /\ [][(~Vivante(mes.pc) /\ Vivante(mes'.pc))
             => (~arretUrgence' /\ ~contactDetecte')]_vars

C27_Temoin ==
    /\ arretUrgence
    /\ ~contactDetecte
    /\ mes.pc = "supprimee"
    /\ seq.pc = "palier"
    /\ seq.dacValue = DAC_MAX

\* C28: nbMesuresSauvees never exceeds nbMesuresTotal, and while neither task
\* is alive nbMesuresTotal = nbMesuresSauvees + buffer.count.
C28_BilanMesures ==
    /\ nbMesuresSauvees <= nbMesuresTotal
    /\ (~Vivante(mes.pc) /\ ~Vivante(aff.pc))
          => nbMesuresTotal = nbMesuresSauvees + buffer.count

C28_Temoin ==
    /\ seq.pc = "rapport"
    /\ ~Vivante(mes.pc) /\ ~Vivante(aff.pc)
    /\ nbMesuresSauvees > 0
    /\ buffer.count > 0
    /\ obs.refus > 0

\* C29: dataFile is open while the persistence task is alive and throughout
\* a pause; it is opened with no task alive, before demarrerThreads(), and
\* closed by loop() at the end of the test with no task alive; the saved
\* count only moves while it is open.
C29_FichierOuvert ==
    /\ [](Vivante(aff.pc) => dataFile.ouvert)
    /\ [](seq.pc \in {"pause_arreter", "pause_attendre_mesure",
                      "pause_attendre_affichage", "pause_dac", "pause_attente",
                      "reprise", "reprise_affichage", "apres_reprise"}
             => dataFile.ouvert)
    /\ [][(~dataFile.ouvert /\ dataFile'.ouvert)
             => (seq.pc = "ouvrir" /\ seq'.pc = "demarrer"
                    /\ ~Vivante(mes.pc) /\ ~Vivante(aff.pc))]_vars
    /\ [][(dataFile.ouvert /\ ~dataFile'.ouvert)
             => (seq.pc = "fermer" /\ dataFile'.nonFlushes = 0
                    /\ ~Vivante(mes.pc) /\ ~Vivante(aff.pc))]_vars
    /\ [][nbMesuresSauvees' > nbMesuresSauvees
             => (dataFile.ouvert /\ dataFile'.ouvert)]_vars

C29_Temoin ==
    /\ seq.pc = "apres_reprise"
    /\ Vivante(aff.pc)
    /\ dataFile.ouvert
    /\ dataFile.nonFlushes > 0

\* C30: a sample whose current is above SEUIL_COURANT_MAX_mA makes the
\* acquisition task raise arretUrgence, clear mesureActive and end; the task
\* touches neither stats nor the buffer on the way, and no such sample is ever
\* pushed or handed to the persistence task.
C30_SurintensiteNonEnregistree ==
    /\ [](/\ Vivante(mes.pc) /\ Surintensite(mes.mesureLocale)
             => mes.pc \in {"securite", "securite_arret"}
          /\ \A i \in 1..Len(obs.pousses) : ~Surintensite(obs.pousses[i])
          /\ \A i \in 1..Len(obs.depiles) : ~Surintensite(obs.depiles[i])
          /\ \A i \in 1..Len(aff.mesuresLocales) :
                ~Surintensite(aff.mesuresLocales[i]))
    /\ [][(mes.pc = "securite" /\ mes' # mes)
             => /\ arretUrgence'
                /\ mes'.pc = "securite_arret"
                /\ buffer' = buffer /\ stats' = stats
                /\ nbMesuresTotal' = nbMesuresTotal]_vars
    /\ [][(mes.pc = "securite_arret" /\ mes' # mes)
             => /\ arretUrgence' /\ ~mesureActive'
                /\ mes'.pc = "supprimee"
                /\ buffer' = buffer /\ stats' = stats
                /\ nbMesuresTotal' = nbMesuresTotal]_vars

C30_Temoin ==
    /\ mes.pc = "supprimee"
    /\ obs.surintensiteLue
    /\ arretUrgence /\ ~mesureActive
    /\ nbMesuresTotal = 0
    /\ buffer.count = 0
    /\ Vivante(aff.pc)

\* C31: a task is created only by demarrerThreads(), and only when neither
\* the acquisition task nor the persistence task of the previous start is
\* alive; the buffer is filled only by a step of the acquisition task and
\* emptied only by a step of the persistence task or by the reset of loop().
C31_UneTacheParRole ==
    /\ [][(seq.pc \in {"demarrer", "reprise"} /\ seq' # seq)
             => (~Vivante(mes.pc) /\ ~Vivante(aff.pc) /\ Vivante(mes'.pc))]_vars
    /\ [][(seq.pc \in {"demarrer_affichage", "reprise_affichage"} /\ seq' # seq)
             => (~Vivante(aff.pc) /\ Vivante(aff'.pc))]_vars
    /\ [][(~Vivante(mes.pc) /\ Vivante(mes'.pc))
             => seq.pc \in {"demarrer", "reprise"}]_vars
    /\ [][(~Vivante(aff.pc) /\ Vivante(aff'.pc))
             => seq.pc \in {"demarrer_affichage", "reprise_affichage"}]_vars
    /\ [][buffer'.count > buffer.count
             => (mes.pc = "prendre_buffer" /\ mes' # mes)]_vars
    /\ [][buffer'.count < buffer.count
             => \/ aff.pc = "prendre_buffer" /\ aff' # aff
                \/ seq' # seq /\ ~Vivante(mes.pc) /\ ~Vivante(aff.pc)]_vars

C31_Temoin ==
    /\ seq.pc = "reprise_affichage"
    /\ Vivante(mes.pc)
    /\ aff.pc = "supprimee"
    /\ nbMesuresTotal > 0

====
